---- MODULE Spec2Model ----
(***************************************************************************)
(* Model of bot.py: the AdsGram Telegram bot.                              *)
(*                                                                         *)
(*   - cooldown_ok / _last_ad_at : the per-user cooldown gate              *)
(*   - fetch_adsgram_ad          : the outbound ad fetch and its           *)
(*                                 classification of the HTTP response     *)
(*   - handle_show_ads           : the ad workflow, cut at its awaits      *)
(*   - ads_cmd / button_callback : the two entry points                    *)
(*   - reward                    : the Flask reward endpoint               *)
(*                                                                         *)
(* Python dicts are functions over a fixed key set whose value ABSENT      *)
(* stands for "key not in the dict"; None is a flag of the record that     *)
(* carries the value.  Time is in whole seconds.                           *)
(***************************************************************************)
EXTENDS Integers, Sequences, FiniteSets, TLC

\* ------------------------------------------------------------------ bounds
\* time.time() at the first step (seconds since the epoch, scaled down; the
\* real value is far above COOLDOWN_SECONDS)
BootTime == 6
\* how many seconds the clock may advance
MaxTicks == 8
\* keys an ad-network response object may carry (full enumeration)
MaxKeys == 3
\* query parameters of a reward request
MaxQuery == 2

Users == {1, 2}
Procs == {"t1", "t2"}

\* --------------------------------------------------------------- constants
COOLDOWN_SECONDS == 6

ABSENT == "<absent>"

WAIT_MSG == "Please wait a few seconds before requesting another ad."
NOAD_MSG == "No ad available right now (or invalid response from ad server). Try again later."
FAIL_MSG == "Failed to display ad. Please try again later."
SPONSORED == "Sponsored"
OPEN == "Open"

\* ------------------------------------------------------- python semantics
\* truth value of a str-or-None
Truthy(v) == v # ABSENT /\ v # ""

\* a or b
Or(a, b) == IF Truthy(a) THEN a ELSE b

\* ------------------------------------------------------------ cooldown_ok
NoEntry == -1

\* the lookup with the start-up time as its default
cooldown_last_recent(m, u) == IF m[u] = NoEntry THEN BootTime ELSE m[u]

\* _last_ad_at.get(user_id, 0)
cooldown_last(m, u) == IF m[u] = NoEntry THEN 0 ELSE m[u]

\* cooldown_ok with the comparison made strict
cooldown_ok_strict(m, u, now) == now - cooldown_last(m, u) > COOLDOWN_SECONDS

\* the value cooldown_ok returns
cooldown_ok(m, u, now) == now - cooldown_last(m, u) >= COOLDOWN_SECONDS

\* cooldown_ok writing the new time on every call
cooldown_store_always(m, u, now) == [m EXCEPT ![u] = now]

\* cooldown_ok without the write of the new time
cooldown_store_lost(m, u, now) == m

\* _last_ad_at after cooldown_ok
cooldown_store(m, u, now) ==
    IF cooldown_ok(m, u, now) THEN [m EXCEPT ![u] = now] ELSE m

\* ------------------------------------------------- ad-network responses
AdKeys == {"click_url", "url", "link", "button_name", "button_reward_name",
           "reward_url", "rewardUrl", "text_html", "text", "image_url",
           "imageUrl"}

\* values a key of the response object may carry ("" is any falsy value)
AdVals == {"", "x", "y"}

EmptyAd == [k \in AdKeys |-> ABSENT]

\* the dict with the keys K set as f says
AdOf(K, f) == [k \in AdKeys |-> IF k \in K THEN f[k] ELSE ABSENT]

\* every response object with at most n keys
AdsUpTo(n) ==
    UNION {{AdOf(K, f) : f \in [K -> AdVals]} :
           K \in {S \in SUBSET AdKeys : Cardinality(S) <= n}}

Present(ad, k) == ad[k] # ABSENT

\* the outcome of requests.get(url, timeout=10): it raised (connection
\* error, timeout), or a response with a status and a body that is not
\* JSON, JSON that is no object, or a JSON object d
Statuses == {200, 204, 404, 500}
Is2xx(status) == status >= 200 /\ status < 300

ExcResponse == [exc |-> TRUE, status |-> 0, json |-> "invalid", d |-> EmptyAd]
Response(s, j, d) == [exc |-> FALSE, status |-> s, json |-> j, d |-> d]

\* ------------------------------------------------------- fetch_adsgram_ad
\* what the call does: raises, returns None, or returns the dict d
Raises == [raises |-> TRUE, none |-> TRUE, d |-> EmptyAd]
None == [raises |-> FALSE, none |-> TRUE, d |-> EmptyAd]
Dict(d) == [raises |-> FALSE, none |-> FALSE, d |-> d]

\* requests.get without the except clause
request_failed_uncaught(r) == Raises

\* except Exception around requests.get
request_failed(r) == None

\* the status test widened to every 2xx status
status_ok_2xx(r) == Is2xx(r.status)

\* if resp.status_code != 200
status_ok(r) == r.status = 200

\* resp.json() raising ValueError, and the isinstance(data, dict) test
parse_body(r) == IF r.json = "dict" THEN Dict(r.d) ELSE None

fetch_adsgram_ad(r) ==
    IF r.exc THEN request_failed(r)
    ELSE IF ~status_ok(r) THEN None
    ELSE parse_body(r)

\* `ad is None` in place of `not ad`
NotAd_is_none(a) == a.none

\* `not ad` for ad a dict or None
NotAd(a) == a.none \/ a.d = EmptyAd

\* ---------------------------------------------- handle_show_ads: the ad
\* the click aliases probed in the opposite order
click_url_reversed(ad) == Or(Or(ad["link"], ad["url"]), ad["click_url"])

click_url(ad) == Or(Or(ad["click_url"], ad["url"]), ad["link"])
\* the label without its default
button_name_no_default(ad) == ad["button_name"]

button_name(ad) == Or(ad["button_name"], OPEN)
reward_name(ad) == ad["button_reward_name"]
reward_url(ad) == Or(ad["reward_url"], ad["rewardUrl"])

InlineKeyboardButton(text, url) == [text |-> text, url |-> url]

\* if click_url: buttons.append([...])
primary_row(ad) ==
    IF Truthy(click_url(ad))
    THEN << <<InlineKeyboardButton(button_name(ad), click_url(ad))>> >>
    ELSE << >>

\* the reward row with `or` in place of `and`
reward_row_either(ad) ==
    IF Truthy(reward_name(ad)) \/ Truthy(reward_url(ad))
    THEN << <<InlineKeyboardButton(reward_name(ad), reward_url(ad))>> >>
    ELSE << >>

\* if reward_name and reward_url: buttons.append([...])
reward_row(ad) ==
    IF Truthy(reward_name(ad)) /\ Truthy(reward_url(ad))
    THEN << <<InlineKeyboardButton(reward_name(ad), reward_url(ad))>> >>
    ELSE << >>

buttons(ad) == primary_row(ad) \o reward_row(ad)

\* InlineKeyboardMarkup(buttons) if buttons else None
NoMarkup == [none |-> TRUE, rows |-> << >>]
reply_markup(ad) ==
    IF buttons(ad) # << >> THEN [none |-> FALSE, rows |-> buttons(ad)]
    ELSE NoMarkup

\* the text without its default
text_html_no_default(ad) == Or(ad["text_html"], ad["text"])

text_html(ad) == Or(Or(ad["text_html"], ad["text"]), SPONSORED)
image_url(ad) == Or(ad["image_url"], ad["imageUrl"])

\* ------------------------------------------------------ chat transport
\* one call of the Telegram API, as the handler issues it
reply_text(msg) ==
    [method |-> "reply_text", chat_id |-> 0, text |-> msg, photo |-> ABSENT,
     markup |-> NoMarkup, protect_content |-> FALSE]

answer == [method |-> "answer", chat_id |-> 0, text |-> ABSENT,
           photo |-> ABSENT, markup |-> NoMarkup, protect_content |-> FALSE]

send_photo(u, ad) ==
    [method |-> "send_photo", chat_id |-> u, text |-> text_html(ad),
     photo |-> image_url(ad), markup |-> reply_markup(ad),
     protect_content |-> TRUE]

send_message(u, ad) ==
    [method |-> "send_message", chat_id |-> u, text |-> text_html(ad),
     photo |-> ABSENT, markup |-> reply_markup(ad), protect_content |-> TRUE]

\* if image_url: send_photo(...) else: send_message(...)
dispatch(u, ad) ==
    IF Truthy(image_url(ad)) THEN send_photo(u, ad) ELSE send_message(u, ad)

\* ------------------------------------------------------------------ state
VARIABLES
    clock,        \* time.time()
    last_ad_at,   \* _last_ad_at: user -> time of the last admission, or NoEntry
    pc,           \* where each handler task stands
    entry,        \* the entry point that started the task
    user,         \* reply_source.from_user.id
    now,          \* the time cooldown_ok read in the task
    last,         \* the last-request time cooldown_ok read in the task
    decision,     \* what cooldown_ok returned to the task
    resp,         \* the outcome of the task's requests.get
    ad,           \* what fetch_adsgram_ad did in the task
    fetches,      \* calls of fetch_adsgram_ad by the task
    calls,        \* Telegram API calls the task has issued, in order
    result,       \* how the task ended: "returned" or "raised"
    admitted_at,  \* history: the times at which each user was admitted
    rq,           \* the last request to /reward/<user_id>
    rs            \* what the reward view did with it

wf_vars ==
    <<pc, entry, user, now, last, decision, resp, ad, fetches, calls, result>>
rw_vars == <<rq, rs>>
vars == <<clock, last_ad_at, admitted_at, wf_vars, rw_vars>>

NoRequest == [user_id |-> 0, method |-> "none"]
NoReply == [status |-> 0]

Init ==
    /\ clock = BootTime
    /\ last_ad_at = [u \in Users |-> NoEntry]
    /\ admitted_at = [u \in Users |-> << >>]
    /\ pc = [p \in Procs |-> "idle"]
    /\ entry = [p \in Procs |-> "none"]
    /\ user = [p \in Procs |-> 0]
    /\ now = [p \in Procs |-> 0]
    /\ last = [p \in Procs |-> 0]
    /\ decision = [p \in Procs |-> "none"]
    /\ resp = [p \in Procs |-> ExcResponse]
    /\ ad = [p \in Procs |-> None]
    /\ fetches = [p \in Procs |-> 0]
    /\ calls = [p \in Procs |-> << >>]
    /\ result = [p \in Procs |-> "none"]
    /\ rq = NoRequest
    /\ rs = NoReply

\* time passes
Tick ==
    /\ clock < BootTime + MaxTicks
    /\ clock' = clock + 1
    /\ UNCHANGED <<last_ad_at, admitted_at, wf_vars, rw_vars>>

\* The handlers are coroutines of one event loop: a task runs from one await
\* to the next without interruption, and requests.get blocks the loop.  With
\* conc = FALSE updates are processed one after the other, as the Application
\* built in main() does; with conc = TRUE the tasks interleave at their awaits.
LoopFree(p, conc) ==
    /\ \A q \in Procs \ {p} : pc[q] # "fetch"
    /\ ~conc => \A q \in Procs \ {p} : pc[q] = "idle"

\* handle_show_ads without the return after the please-wait reply
Gate_no_return(p, u) ==
    /\ user' = [user EXCEPT ![p] = u]
    /\ now' = [now EXCEPT ![p] = clock]
    /\ last' = [last EXCEPT ![p] = cooldown_last(last_ad_at, u)]
    /\ last_ad_at' = cooldown_store(last_ad_at, u, clock)
    /\ pc' = [pc EXCEPT ![p] = "fetch"]
    /\ IF cooldown_ok(last_ad_at, u, clock)
       THEN /\ decision' = [decision EXCEPT ![p] = "admitted"]
            /\ admitted_at' = [admitted_at EXCEPT ![u] = Append(@, clock)]
            /\ calls' = calls
       ELSE /\ decision' = [decision EXCEPT ![p] = "denied"]
            /\ admitted_at' = admitted_at
            /\ calls' = [calls EXCEPT ![p] = Append(@, reply_text(WAIT_MSG))]

\* handle_show_ads up to its first await: user_id, cooldown_ok(user_id), and
\* on denial the "please wait" reply
Gate(p, u) ==
    /\ user' = [user EXCEPT ![p] = u]
    /\ now' = [now EXCEPT ![p] = clock]
    /\ last' = [last EXCEPT ![p] = cooldown_last(last_ad_at, u)]
    /\ last_ad_at' = cooldown_store(last_ad_at, u, clock)
    /\ IF cooldown_ok(last_ad_at, u, clock)
       THEN /\ decision' = [decision EXCEPT ![p] = "admitted"]
            /\ admitted_at' = [admitted_at EXCEPT ![u] = Append(@, clock)]
            /\ pc' = [pc EXCEPT ![p] = "fetch"]
            /\ calls' = calls
       ELSE /\ decision' = [decision EXCEPT ![p] = "denied"]
            /\ admitted_at' = admitted_at
            /\ pc' = [pc EXCEPT ![p] = "await_wait"]
            /\ calls' = [calls EXCEPT ![p] = Append(@, reply_text(WAIT_MSG))]

\* /ads: ads_cmd wraps the message and calls handle_show_ads
ads_cmd(p, u, conc) ==
    /\ pc[p] = "idle"
    /\ LoopFree(p, conc)
    /\ entry' = [entry EXCEPT ![p] = "ads_cmd"]
    /\ Gate(p, u)
    /\ UNCHANGED <<clock, resp, ad, fetches, result, rw_vars>>

\* the "Show Ads" button: button_callback awaits query.answer() first
button_callback(p, u, conc) ==
    /\ pc[p] = "idle"
    /\ LoopFree(p, conc)
    /\ entry' = [entry EXCEPT ![p] = "button_callback"]
    /\ user' = [user EXCEPT ![p] = u]
    /\ calls' = [calls EXCEPT ![p] = Append(@, answer)]
    /\ pc' = [pc EXCEPT ![p] = "await_answer"]
    /\ UNCHANGED <<clock, last_ad_at, admitted_at, now, last, decision, resp,
                   ad, fetches, result, rw_vars>>

\* the button path going to the fetch without asking cooldown_ok
answer_ok_no_gate(p, conc) ==
    /\ pc[p] = "await_answer"
    /\ LoopFree(p, conc)
    /\ now' = [now EXCEPT ![p] = clock]
    /\ last' = [last EXCEPT ![p] = cooldown_last(last_ad_at, user[p])]
    /\ decision' = [decision EXCEPT ![p] = "admitted"]
    /\ pc' = [pc EXCEPT ![p] = "fetch"]
    /\ UNCHANGED <<clock, last_ad_at, admitted_at, entry, user, resp, ad,
                   fetches, calls, result, rw_vars>>

\* query.answer() returns, and handle_show_ads(query, context) starts
answer_ok(p, conc) ==
    /\ pc[p] = "await_answer"
    /\ LoopFree(p, conc)
    /\ Gate(p, user[p])
    /\ UNCHANGED <<clock, entry, resp, ad, fetches, result, rw_vars>>

\* query.answer() raises: the exception leaves button_callback
answer_raises(p, conc) ==
    /\ pc[p] = "await_answer"
    /\ LoopFree(p, conc)
    /\ pc' = [pc EXCEPT ![p] = "done"]
    /\ result' = [result EXCEPT ![p] = "raised"]
    /\ UNCHANGED <<clock, last_ad_at, admitted_at, entry, user, now, last,
                   decision, resp, ad, fetches, calls, rw_vars>>

\* ad = fetch_adsgram_ad(user_id), `if not ad`, and the building and issuing
\* of the ad message: one stretch without an await
fetch(p, R) ==
    /\ pc[p] = "fetch"
    /\ \E r \in R :
        /\ resp' = [resp EXCEPT ![p] = r]
        /\ ad' = [ad EXCEPT ![p] = fetch_adsgram_ad(r)]
        /\ LET a == fetch_adsgram_ad(r) IN
           IF a.raises
           THEN /\ pc' = [pc EXCEPT ![p] = "done"]
                /\ result' = [result EXCEPT ![p] = "raised"]
                /\ calls' = calls
           ELSE IF NotAd(a)
           THEN /\ pc' = [pc EXCEPT ![p] = "await_noad"]
                /\ calls' = [calls EXCEPT ![p] = Append(@, reply_text(NOAD_MSG))]
                /\ result' = result
           ELSE /\ pc' = [pc EXCEPT ![p] = "await_ad"]
                /\ calls' = [calls EXCEPT ![p] = Append(@, dispatch(user[p], a.d))]
                /\ result' = result
    /\ fetches' = [fetches EXCEPT ![p] = @ + 1]
    /\ UNCHANGED <<clock, last_ad_at, admitted_at, entry, user, now, last,
                   decision, rw_vars>>

AwaitingReply == {"await_wait", "await_noad", "await_fail"}

\* a reply_text outside the try block returns: the handler returns
reply_ok(p, conc) ==
    /\ pc[p] \in AwaitingReply
    /\ LoopFree(p, conc)
    /\ pc' = [pc EXCEPT ![p] = "done"]
    /\ result' = [result EXCEPT ![p] = "returned"]
    /\ UNCHANGED <<clock, last_ad_at, admitted_at, entry, user, now, last,
                   decision, resp, ad, fetches, calls, rw_vars>>

\* a reply_text outside the try block raises: nothing catches it
reply_raises(p, conc) ==
    /\ pc[p] \in AwaitingReply
    /\ LoopFree(p, conc)
    /\ pc' = [pc EXCEPT ![p] = "done"]
    /\ result' = [result EXCEPT ![p] = "raised"]
    /\ UNCHANGED <<clock, last_ad_at, admitted_at, entry, user, now, last,
                   decision, resp, ad, fetches, calls, rw_vars>>

\* send_photo / send_message returns
send_ok(p, conc) ==
    /\ pc[p] = "await_ad"
    /\ LoopFree(p, conc)
    /\ pc' = [pc EXCEPT ![p] = "done"]
    /\ result' = [result EXCEPT ![p] = "returned"]
    /\ UNCHANGED <<clock, last_ad_at, admitted_at, entry, user, now, last,
                   decision, resp, ad, fetches, calls, rw_vars>>

\* a delivery failure that gives the user the cooldown back
send_raises_refund(p, conc) ==
    /\ pc[p] = "await_ad"
    /\ LoopFree(p, conc)
    /\ pc' = [pc EXCEPT ![p] = "await_fail"]
    /\ calls' = [calls EXCEPT ![p] = Append(@, reply_text(FAIL_MSG))]
    /\ last_ad_at' = [last_ad_at EXCEPT ![user[p]] = NoEntry]
    /\ UNCHANGED <<clock, admitted_at, entry, user, now, last,
                   decision, resp, ad, fetches, result, rw_vars>>

\* send_photo / send_message raises: except Exception replies FAIL_MSG
send_raises(p, conc) ==
    /\ pc[p] = "await_ad"
    /\ LoopFree(p, conc)
    /\ pc' = [pc EXCEPT ![p] = "await_fail"]
    /\ calls' = [calls EXCEPT ![p] = Append(@, reply_text(FAIL_MSG))]
    /\ UNCHANGED <<clock, last_ad_at, admitted_at, entry, user, now, last,
                   decision, resp, ad, fetches, result, rw_vars>>

\* the task is over and its locals are gone; _last_ad_at stays
finish(p, conc) ==
    /\ pc[p] = "done"
    /\ LoopFree(p, conc)
    /\ pc' = [pc EXCEPT ![p] = "idle"]
    /\ entry' = [entry EXCEPT ![p] = "none"]
    /\ user' = [user EXCEPT ![p] = 0]
    /\ now' = [now EXCEPT ![p] = 0]
    /\ last' = [last EXCEPT ![p] = 0]
    /\ decision' = [decision EXCEPT ![p] = "none"]
    /\ resp' = [resp EXCEPT ![p] = ExcResponse]
    /\ ad' = [ad EXCEPT ![p] = None]
    /\ fetches' = [fetches EXCEPT ![p] = 0]
    /\ calls' = [calls EXCEPT ![p] = << >>]
    /\ result' = [result EXCEPT ![p] = "none"]
    /\ UNCHANGED <<clock, last_ad_at, admitted_at, rw_vars>>

\* ------------------------------------------------------ reward endpoint
RKeys == {"amount", "sig"}
RVals == {"5", "9"}

\* a dict of the payload's shape; {} is EmptyPayload
Payloads == [RKeys -> RVals \cup {ABSENT}]
EmptyPayload == [k \in RKeys |-> ABSENT]

\* request bodies: none, bytes that are not JSON, a JSON value that is no
\* object, or a JSON object
Scalars == {"null", "false", "true", "0", "1", "''", "'s'", "[]", "[1]"}
Bodies ==
    {[kind |-> k, d |-> EmptyPayload] : k \in {"absent", "invalid"} \cup Scalars}
    \cup {[kind |-> "object", d |-> d] : d \in Payloads}

\* query strings: the parameters in the order they are written
Param(k, v) == [k |-> k, v |-> v]
Params == {Param(k, v) : k \in RKeys, v \in RVals}
Queries == UNION {[1..n -> Params] : n \in 0..MaxQuery}

Requests(U) ==
    {[user_id |-> u, method |-> m, body |-> b, args |-> q] :
        u \in U, m \in {"GET", "POST"}, b \in Bodies, q \in Queries}

\* request.get_json(force=True, silent=True): the parsed value, None when the
\* body does not parse
get_json(body) ==
    IF body.kind \in {"absent", "invalid"}
    THEN [kind |-> "None", d |-> EmptyPayload]
    ELSE body

\* bool(v) of a parsed value or None
JsonTruthy(v) ==
    \/ v.kind \in {"true", "1", "'s'", "[1]"}
    \/ v.kind = "object" /\ v.d # EmptyPayload

\* v or {}
OrEmptyDict(v) ==
    IF JsonTruthy(v) THEN v ELSE [kind |-> "object", d |-> EmptyPayload]

\* data before the merge: {} unless the method is POST
body_data(r) ==
    IF r.method = "POST" THEN OrEmptyDict(get_json(r.body))
    ELSE [kind |-> "object", d |-> EmptyPayload]

\* whether data has an update method
IsDict(v) == v.kind = "object"

\* request.args.to_dict(): MultiDict.to_dict(flat=True) keeps the first
\* value of each key
HasKey(q, k) == \E i \in 1..Len(q) : q[i].k = k
FirstIndex(q, k) ==
    CHOOSE i \in 1..Len(q) : q[i].k = k /\ \A j \in 1..(i - 1) : q[j].k # k
to_dict(q) ==
    [k \in RKeys |-> IF HasKey(q, k) THEN q[FirstIndex(q, k)].v ELSE ABSENT]

\* an update that keeps the values data already has
update_keeps_old(data, other) ==
    [k \in RKeys |-> IF data[k] # ABSENT THEN data[k] ELSE other[k]]

\* data.update(other)
update(data, other) ==
    [k \in RKeys |-> IF other[k] # ABSENT THEN other[k] ELSE data[k]]

\* the view's two ways out
Ok(u, payload) ==
    [status |-> 200, body |-> "ok", logged |-> TRUE, user_id |-> u,
     payload |-> payload]
Error500 ==
    [status |-> 500, body |-> "error", logged |-> FALSE, user_id |-> 0,
     payload |-> EmptyPayload]

\* reward(user_id): data.update on a value that is no dict raises
\* AttributeError, which the outer except turns into the 500 reply
reward_view(r) ==
    IF IsDict(body_data(r))
    THEN Ok(r.user_id, update(body_data(r).d, to_dict(r.args)))
    ELSE Error500

\* a reward view that clears the cooldown entry of the rewarded user
reward_clears_cooldown(r) ==
    /\ rq' = r
    /\ rs' = reward_view(r)
    /\ last_ad_at' = [u \in Users |->
                          IF u = r.user_id THEN NoEntry ELSE last_ad_at[u]]
    /\ UNCHANGED <<clock, admitted_at, wf_vars>>

\* one request to /reward/<user_id>, handled on the Flask thread
reward(r) ==
    /\ rq' = r
    /\ rs' = reward_view(r)
    /\ UNCHANGED <<clock, last_ad_at, admitted_at, wf_vars>>

\* --------------------------------------------------------- specifications
\* the steps of the handler tasks
Workflow(conc, U, R) ==
    \E p \in Procs :
        \/ \E u \in U : ads_cmd(p, u, conc)
        \/ \E u \in U : button_callback(p, u, conc)
        \/ answer_ok(p, conc)
        \/ answer_raises(p, conc)
        \/ fetch(p, R)
        \/ reply_ok(p, conc)
        \/ reply_raises(p, conc)
        \/ send_ok(p, conc)
        \/ send_raises(p, conc)
        \/ finish(p, conc)

\* ad-network answers the whole program is run against
TextAd == AdOf({"text", "click_url"}, [k \in AdKeys |-> "x"])
ClickAd == AdOf({"click_url"}, [k \in AdKeys |-> "x"])
PhotoAd == AdOf({"image_url", "button_reward_name", "reward_url"},
                [k \in AdKeys |-> "y"])
SampleResponses ==
    {ExcResponse, Response(500, "invalid", EmptyAd),
     Response(200, "invalid", EmptyAd), Response(200, "dict", EmptyAd),
     Response(200, "dict", TextAd), Response(200, "dict", PhotoAd)}

\* reward callbacks the whole program is run against
SampleRequests ==
    {[user_id |-> 1, method |-> "POST",
      body |-> [kind |-> "object", d |-> [EmptyPayload EXCEPT !["amount"] = "5"]],
      args |-> << >>],
     [user_id |-> 2, method |-> "GET",
      body |-> [kind |-> "absent", d |-> EmptyPayload],
      args |-> <<Param("amount", "5"), Param("amount", "9")>>]}

\* the program as main() starts it: updates handled one at a time, the
\* reward endpoint on its own thread
Next ==
    \/ Tick
    \/ Workflow(FALSE, Users, SampleResponses)
    \/ \E r \in SampleRequests : reward(r)

Spec == Init /\ [][Next]_vars

\* the handler tasks of one user interleaving at their awaits
NextConcurrent ==
    \/ Tick
    \/ Workflow(TRUE, {1}, SampleResponses)

SpecConcurrent == Init /\ [][NextConcurrent]_vars

\* one task against every answer of the ad network
AllResponses(n) ==
    {ExcResponse}
    \cup {Response(s, j, EmptyAd) : s \in Statuses, j \in {"invalid", "nondict"}}
    \cup {Response(s, "dict", d) : s \in Statuses, d \in {EmptyAd, TextAd, ClickAd}}
    \cup {Response(200, "dict", d) : d \in AdsUpTo(n)}

NextAds ==
    \/ ads_cmd("t1", 1, FALSE)
    \/ fetch("t1", AllResponses(MaxKeys))
    \/ reply_ok("t1", FALSE)
    \/ send_ok("t1", FALSE)
    \/ send_raises("t1", FALSE)

SpecAds == Init /\ [][NextAds]_vars

\* the reward endpoint against every request
InitReward ==
    /\ clock = BootTime
    /\ last_ad_at = [u \in Users |-> NoEntry]
    /\ admitted_at = [u \in Users |-> << >>]
    /\ pc = [p \in Procs |-> "idle"]
    /\ entry = [p \in Procs |-> "none"]
    /\ user = [p \in Procs |-> 0]
    /\ now = [p \in Procs |-> 0]
    /\ last = [p \in Procs |-> 0]
    /\ decision = [p \in Procs |-> "none"]
    /\ resp = [p \in Procs |-> ExcResponse]
    /\ ad = [p \in Procs |-> None]
    /\ fetches = [p \in Procs |-> 0]
    /\ calls = [p \in Procs |-> << >>]
    /\ result = [p \in Procs |-> "none"]
    /\ rq \in Requests(Users)
    /\ rs = NoReply

NextReward == rs = NoReply /\ reward(rq)

SpecReward == InitReward /\ [][NextReward]_vars

\* ------------------------------------------------------------ properties
Last(q) == q[Len(q)]

\* the Telegram calls of task p that carry an ad
AdCalls(p) ==
    {i \in 1..Len(calls[p]) : calls[p][i].method \in {"send_photo", "send_message"}}

\* the notices of task p
Notices(p) == {i \in 1..Len(calls[p]) : calls[p][i].method = "reply_text"}

\* C1: under the non-decreasing clock, a call of cooldown_ok is admitted if
\* and only if the user was never admitted before or at least
\* COOLDOWN_SECONDS have passed since the user's last admitted call; so the
\* admissions of one user are pairwise at least COOLDOWN_SECONDS apart.
C1_AdmittedIffElapsed ==
    /\ [](\A u \in Users : \A i, j \in 1..Len(admitted_at[u]) :
            i < j => admitted_at[u][j] - admitted_at[u][i] >= COOLDOWN_SECONDS)
    /\ [][\A p \in Procs :
            (decision[p] = "none" /\ decision'[p] # "none") =>
                LET h == admitted_at[user'[p]] IN
                (decision'[p] = "admitted") <=>
                    (h = << >> \/ clock - Last(h) >= COOLDOWN_SECONDS)]_vars

\* a user admitted twice, and a call of the same user denied
C1_Witness ==
    \E p \in Procs :
        /\ decision[p] = "denied"
        /\ Len(admitted_at[user[p]]) >= 2

\* two live tasks of one user whose cooldown_ok read the same time
SameStamp(p, q) ==
    /\ p # q
    /\ pc[p] \notin {"idle", "done"} /\ pc[q] \notin {"idle", "done"}
    /\ decision[p] # "none" /\ decision[q] # "none"
    /\ user[p] = user[q]
    /\ now[p] = now[q]

\* C2 as stated: two concurrent requests of one user that observe the same
\* timestamp admit exactly one.
C2_ExactlyOne ==
    \A p, q \in Procs :
        SameStamp(p, q) =>
            (decision[p] = "admitted") # (decision[q] = "admitted")

\* C2: two concurrent requests of one user that observe the same timestamp
\* never both pass the gate; both are denied only when the user was already
\* admitted less than COOLDOWN_SECONDS before that timestamp, and otherwise
\* exactly one is admitted.
C2_AtMostOne ==
    \A p, q \in Procs :
        SameStamp(p, q) =>
            /\ ~(decision[p] = "admitted" /\ decision[q] = "admitted")
            /\ (decision[p] = "denied" /\ decision[q] = "denied") =>
                   \E i \in 1..Len(admitted_at[user[p]]) :
                       /\ admitted_at[user[p]][i] <= now[p]
                       /\ now[p] - admitted_at[user[p]][i] < COOLDOWN_SECONDS

\* two live tasks with the same timestamp, one admitted and one denied
C2_Witness ==
    \E p, q \in Procs :
        /\ SameStamp(p, q)
        /\ decision[p] = "admitted"
        /\ decision[q] = "denied"

\* C3: an invocation of handle_show_ads calls fetch_adsgram_ad not at all
\* when cooldown_ok denies (it only sends the please-wait notice) and exactly
\* once when it admits, whatever the fetch returns.
C3_FetchCount ==
    \A p \in Procs :
        /\ fetches[p] <= 1
        /\ decision[p] # "admitted" => fetches[p] = 0
        /\ decision[p] = "denied" =>
               /\ AdCalls(p) = {}
               /\ \A i \in Notices(p) : calls[p][i] = reply_text(WAIT_MSG)
        /\ (decision[p] = "admitted" /\ pc[p] # "fetch") => fetches[p] = 1

\* an admitted invocation that is over after one fetch that gave no ad
C3_Witness ==
    \E p \in Procs :
        /\ pc[p] = "done"
        /\ decision[p] = "admitted"
        /\ ad[p].none
        /\ fetches[p] = 1

\* the reward view has answered the request rq
Replied == rs # NoReply

\* the values the query string gives key k
QueryValues(q, k) == {q[i].v : i \in {j \in 1..Len(q) : q[j].k = k}}

\* the payload made of the query parameters alone
OnlyQuery(payload, q) ==
    \A k \in RKeys :
        IF QueryValues(q, k) = {} THEN payload[k] = ABSENT
        ELSE payload[k] \in QueryValues(q, k)

\* the body of rq is absent, not JSON, or JSON that is no object
Malformed(r) == r.body.kind # "object"

\* C4: a GET or POST to /reward/<user_id> whose body is absent, not JSON, or
\* JSON that is not an object is answered with HTTP 200 and status ok, its
\* payload being the query parameters alone; never with an error status.
C4_MalformedBodyTolerated ==
    (Replied /\ Malformed(rq)) =>
        /\ rs.status = 200
        /\ rs.body = "ok"
        /\ OnlyQuery(rs.payload, rq.args)

\* C5: when the fetch of an admitted request gives no ad (None or an empty
\* object), the task sends the no-ad notice and stops: no send_photo and no
\* send_message is issued, and the notice carries no buttons.
C5_NoAdNotice ==
    \A p \in Procs :
        (fetches[p] = 1 /\ (ad[p].none \/ ad[p].d = EmptyAd)) =>
            /\ AdCalls(p) = {}
            /\ Notices(p) # {}
            /\ \A i \in Notices(p) : calls[p][i] = reply_text(NOAD_MSG)
            /\ Last(calls[p]) = reply_text(NOAD_MSG)
            /\ pc[p] \in {"await_noad", "done"}

\* a task that returned after a fetch that gave no ad
C5_Witness ==
    \E p \in Procs :
        /\ pc[p] = "done"
        /\ result[p] = "returned"
        /\ fetches[p] = 1
        /\ ad[p].none

\* the request of task p failed, or its response is not 2xx
FetchFailed(p) ==
    /\ fetches[p] = 1
    /\ resp[p].exc \/ ~Is2xx(resp[p].status)

\* C6: fetch_adsgram_ad does not raise: for a response that is not 2xx, and
\* for a request that fails or times out, it returns None, and the task goes
\* on to its failure notice.
C6_FetchNeverRaises ==
    \A p \in Procs :
        /\ fetches[p] = 1 => ~ad[p].raises
        /\ FetchFailed(p) =>
               /\ ad[p].none
               /\ Last(calls[p]) = reply_text(NOAD_MSG)
               /\ ~(pc[p] = "done" /\ result[p] = "raised")

\* a task that returned after its request to the ad network raised
C6_Witness ==
    \E p \in Procs :
        /\ pc[p] = "done"
        /\ fetches[p] = 1
        /\ resp[p].exc
        /\ result[p] = "returned"

Dispatched(p) == AdCalls(p) # {}

\* the ad message of task p, and the response object it was built from
AdCall(p) == calls[p][CHOOSE i \in AdCalls(p) : TRUE]
Body(p) == resp[p].d

\* the object carries a non-empty value under one of the keys
HasAny(d, keys) == \E k \in keys : Truthy(d[k])

ClickAliases == {"click_url", "url", "link"}
RewardUrlAliases == {"reward_url", "rewardUrl"}
TextAliases == {"text_html", "text"}
ImageAliases == {"image_url", "imageUrl"}

HasClick(d) == HasAny(d, ClickAliases)
HasReward(d) == Truthy(d["button_reward_name"]) /\ HasAny(d, RewardUrlAliases)

Rows(p) == AdCall(p).markup.rows
RowCount(b) == IF b THEN 1 ELSE 0

\* C8: the ad message has a reward row if and only if the response carries
\* both the reward label (button_reward_name) and a reward URL (reward_url or
\* rewardUrl), each with a non-empty value; with only one of the pair there is
\* no reward row, whether or not there is a primary row.
C8_RewardRowIffBoth ==
    \A p \in Procs :
        Dispatched(p) =>
            /\ Len(Rows(p)) = RowCount(HasClick(Body(p))) + RowCount(HasReward(Body(p)))
            /\ AdCall(p).markup.none <=> Rows(p) = << >>
            /\ HasReward(Body(p)) =>
                   /\ Len(Last(Rows(p))) = 1
                   /\ Last(Rows(p))[1].text = Body(p)["button_reward_name"]
                   /\ Last(Rows(p))[1].url \in
                          {Body(p)[k] : k \in RewardUrlAliases} \ {ABSENT, ""}

\* an ad with a reward label, no reward URL and a click URL: one row, the
\* primary one
C8_Witness ==
    \E p \in Procs :
        /\ Dispatched(p)
        /\ Truthy(Body(p)["button_reward_name"])
        /\ ~HasAny(Body(p), RewardUrlAliases)
        /\ HasClick(Body(p))
        /\ Len(Rows(p)) = 1

\* C9: the ad message has a primary row if and only if the response carries a
\* click-through URL under click_url, url or link; without a button_name its
\* label is "Open"; an ad that is only a click URL has the primary row
\* labelled "Open" and no reward row.
C9_PrimaryRowIffClick ==
    \A p \in Procs :
        Dispatched(p) =>
            /\ Len(Rows(p)) = RowCount(HasClick(Body(p))) + RowCount(HasReward(Body(p)))
            /\ HasClick(Body(p)) =>
                   /\ Len(Rows(p)[1]) = 1
                   /\ Rows(p)[1][1].url \in
                          {Body(p)[k] : k \in ClickAliases} \ {ABSENT, ""}
                   /\ ~Truthy(Body(p)["button_name"]) => Rows(p)[1][1].text = OPEN
                   /\ Truthy(Body(p)["button_name"]) =>
                          Rows(p)[1][1].text = Body(p)["button_name"]
            /\ (/\ Truthy(Body(p)["click_url"])
                /\ \A k \in AdKeys \ {"click_url"} : ~Present(Body(p), k)) =>
                   Rows(p) = << <<[text |-> OPEN, url |-> Body(p)["click_url"]]>> >>

\* the ad {"click_url": "x"} has been sent
C9_Witness ==
    \E p \in Procs :
        /\ Dispatched(p)
        /\ Body(p) = AdOf({"click_url"}, [k \in AdKeys |-> "x"])
        /\ Rows(p) = << <<[text |-> OPEN, url |-> "x"]>> >>

\* the response of task p is 2xx with a JSON object that has neither text nor
\* image under any alias
NoDisplayContent(p) ==
    /\ fetches[p] = 1
    /\ ~resp[p].exc
    /\ Is2xx(resp[p].status)
    /\ resp[p].json = "dict"
    /\ ~HasAny(Body(p), TextAliases \cup ImageAliases)

\* C10 as stated: a 2xx JSON object without text and image is treated as no
\* ad: the user gets the no-ad notice and no ad message is sent.
C10_NoContentIsNoAd ==
    \A p \in Procs :
        NoDisplayContent(p) =>
            /\ ~Dispatched(p)
            /\ Last(calls[p]) = reply_text(NOAD_MSG)

\* C10: a 2xx JSON object without text and image is treated as no ad only
\* when the object is empty or the status is not 200; a non-empty object of a
\* 200 response is sent by send_message with the default text "Sponsored"
\* and the buttons it carries.
C10_EmptyObjectIsNoAd ==
    \A p \in Procs :
        NoDisplayContent(p) =>
            IF Body(p) = EmptyAd \/ resp[p].status # 200
            THEN /\ ~Dispatched(p)
                 /\ Last(calls[p]) = reply_text(NOAD_MSG)
            ELSE /\ Dispatched(p)
                 /\ AdCall(p).method = "send_message"
                 /\ AdCall(p).text = SPONSORED
                 /\ Len(AdCall(p).markup.rows) =
                        RowCount(HasClick(Body(p))) + RowCount(HasReward(Body(p)))

\* a 200 response with a button and neither text nor image, sent as
\* "Sponsored"
C10_Witness ==
    \E p \in Procs :
        /\ NoDisplayContent(p)
        /\ Body(p) # EmptyAd
        /\ Dispatched(p)
        /\ AdCall(p).text = SPONSORED

\* task p has entered handle_show_ads
Started(p) == decision[p] # "none"

\* C11: no invocation of handle_show_ads ends by propagating an exception:
\* every one that is over has returned; and when send_photo or send_message
\* raised, the task has sent the generic failure message before returning.
C11_NoExceptionEscapes ==
    \A p \in Procs :
        (Started(p) /\ pc[p] = "done") =>
            /\ result[p] = "returned"
            /\ FAIL_MSG \in {calls[p][i].text : i \in Notices(p)} =>
                   /\ Dispatched(p)
                   /\ Last(calls[p]) = reply_text(FAIL_MSG)

\* the /ads entry on task t1 and the button entry on task t2, side by side,
\* against a failed request and an ad
EntryResponses == {ExcResponse, Response(200, "dict", PhotoAd)}

NextEntries ==
    \/ Tick
    \/ \E u \in Users : ads_cmd("t1", u, TRUE)
    \/ \E u \in Users : button_callback("t2", u, TRUE)
    \/ answer_ok("t2", TRUE)
    \/ answer_raises("t2", TRUE)
    \/ \E p \in Procs :
        \/ fetch(p, EntryResponses)
        \/ reply_ok(p, TRUE)
        \/ reply_raises(p, TRUE)
        \/ send_ok(p, TRUE)
        \/ send_raises(p, TRUE)
        \/ finish(p, TRUE)

SpecEntries == Init /\ [][NextEntries]_vars

\* the calls handle_show_ads issued in task p (query.answer() is issued by
\* button_callback), the chat id told as "the task's own user"
NotAnswer(c) == c.method # "answer"
WorkCalls(p) ==
    LET w == SelectSeq(calls[p], NotAnswer) IN
    [i \in 1..Len(w) |->
        [method |-> w[i].method, own_chat |-> w[i].chat_id = user[p],
         text |-> w[i].text, photo |-> w[i].photo, markup |-> w[i].markup,
         protect_content |-> w[i].protect_content]]

\* tasks p and q read the same cooldown state at the same time
SameGateInput(p, q) ==
    /\ Started(p) /\ Started(q)
    /\ last[p] = last[q]
    /\ now[p] = now[q]

\* ... and got the same from the ad network and from Telegram so far
SameInputs(p, q) ==
    /\ SameGateInput(p, q)
    /\ fetches[p] = fetches[q]
    /\ fetches[p] = 1 => resp[p] = resp[q]
    /\ Len(WorkCalls(p)) = Len(WorkCalls(q))
    /\ (pc[p] = "done") <=> (pc[q] = "done")
    /\ result[p] = result[q]

\* C12: a task started by ads_cmd and a task started by button_callback that
\* read the same cooldown state at the same time take the same admit/deny
\* decision; with the same answer of the ad network they make the same fetch
\* call and issue the same notice or ad message, and each leaves in
\* _last_ad_at what cooldown_ok prescribes, whatever the entry point.
C12_EntriesConverge ==
    /\ [](\A p, q \in Procs :
            (entry[p] = "ads_cmd" /\ entry[q] = "button_callback") =>
                /\ SameGateInput(p, q) => decision[p] = decision[q]
                /\ SameInputs(p, q) =>
                       /\ pc[p] = pc[q]
                       /\ ad[p] = ad[q]
                       /\ WorkCalls(p) = WorkCalls(q))
    /\ [][\A p \in Procs :
            (~Started(p) /\ decision'[p] # "none") =>
                /\ last_ad_at'[user'[p]] =
                       IF decision'[p] = "admitted" THEN clock
                       ELSE last_ad_at[user'[p]]
                /\ \A u \in Users \ {user'[p]} :
                       last_ad_at'[u] = last_ad_at[u]]_vars

\* an admitted /ads task and an admitted button task with the same inputs,
\* both with their ad message out
C12_Witness ==
    /\ entry["t1"] = "ads_cmd" /\ entry["t2"] = "button_callback"
    /\ SameInputs("t1", "t2")
    /\ decision["t1"] = "admitted"
    /\ Dispatched("t1") /\ Dispatched("t2")

\* task p runs cooldown_ok in this step
Gates(p) == ~Started(p) /\ decision'[p] # "none"

\* C13: a user without an entry in _last_ad_at is admitted on the first
\* request at whatever time it comes, and the admission records that time as
\* the user's last-request time.
C13_FirstRequestAdmitted ==
    [][\A p \in Procs :
        (Gates(p) /\ last_ad_at[user'[p]] = NoEntry) =>
            /\ decision'[p] = "admitted"
            /\ pc'[p] = "fetch"
            /\ last_ad_at'[user'[p]] = clock]_vars

\* a first request that came some seconds after the start, admitted
C13_Witness ==
    \E p \in Procs :
        /\ decision[p] = "admitted"
        /\ admitted_at[user[p]] = <<now[p]>>
        /\ now[p] > BootTime + 2
        /\ last[p] = 0

\* the last place of key k in the query string q
LastIndex(q, k) ==
    CHOOSE i \in 1..Len(q) : q[i].k = k /\ \A j \in (i + 1)..Len(q) : q[j].k # k

\* C14: when the query string of a reward request repeats a key, the payload
\* holds the value of the key's last occurrence ("last write wins").
C14_LastOccurrenceKept ==
    (Replied /\ rs.status = 200) =>
        \A k \in RKeys :
            HasKey(rq.args, k) =>
                rs.payload[k] = rq.args[LastIndex(rq.args, k)].v

\* the response of task p has a body that parses as a JSON object
ObjectBody(p) == ~resp[p].exc /\ resp[p].json = "dict"

\* C15 as stated: fetch_adsgram_ad returns an ad if and only if the response
\* has a 2xx status and its body parses as a JSON object.
C15_AdIff2xxObject ==
    \A p \in Procs :
        fetches[p] = 1 =>
            (~ad[p].none <=> (ObjectBody(p) /\ Is2xx(resp[p].status)))

\* C15: fetch_adsgram_ad returns a dict, the parsed body, if and only if the
\* response has status 200 and its body parses as a JSON object; every other
\* response (another 2xx status, a non-2xx status, a body that is no JSON
\* object) and every failed request gives None.
C15_AdIff200Object ==
    \A p \in Procs :
        fetches[p] = 1 =>
            /\ ~ad[p].raises
            /\ ~ad[p].none <=> (ObjectBody(p) /\ resp[p].status = 200)
            /\ ~ad[p].none => ad[p].d = resp[p].d
            /\ ad[p].none => ad[p] = None

\* a 204 response with a JSON object has been fetched, and it gave None
C15_Witness ==
    \E p \in Procs :
        /\ fetches[p] = 1
        /\ ObjectBody(p)
        /\ resp[p].status = 204
        /\ ad[p].none

\* C16: _last_ad_at changes only on admission: a denied call of cooldown_ok
\* leaves the whole map as it was, an admitted call changes the entry of the
\* calling user alone, and no step removes an entry.
C16_MapChangesOnAdmission ==
    [][/\ \A u \in Users : last_ad_at[u] # NoEntry => last_ad_at'[u] # NoEntry
       /\ last_ad_at' # last_ad_at =>
              \E p \in Procs : Gates(p) /\ decision'[p] = "admitted"
       /\ \A p \in Procs :
              Gates(p) =>
                  /\ decision'[p] = "denied" => last_ad_at' = last_ad_at
                  /\ \A u \in Users \ {user'[p]} : last_ad_at'[u] = last_ad_at[u]]_vars

\* a request denied some seconds after the admission, the entry still at the
\* time of the admission
C16_Witness ==
    \E p \in Procs :
        /\ decision[p] = "denied"
        /\ now[p] > last[p] + 1
        /\ last_ad_at[user[p]] = last[p]
        /\ \E u \in Users : last_ad_at[u] # NoEntry /\ u # user[p]

\* C17: the reward flow and the ad-request flow share no mutable state: a
\* step that handles a reward callback leaves the cooldown map, the clock and
\* every ad-workflow variable unchanged (so erasing the reward steps of a run
\* leaves a run with the same ad-workflow states), and each admit/deny
\* decision is determined by the clock and the user's earlier admissions
\* alone, whatever reward callbacks were handled before it.
C17_RewardIndependent ==
    [][/\ rw_vars' # rw_vars =>
              UNCHANGED <<clock, last_ad_at, admitted_at, wf_vars>>
       /\ \A p \in Procs :
              Gates(p) =>
                  (decision'[p] = "admitted" <=>
                      \/ admitted_at[user'[p]] = << >>
                      \/ clock - Last(admitted_at[user'[p]]) >= COOLDOWN_SECONDS)]_vars

\* a reward callback for a user answered while a request of the same user
\* stands denied
C17_Witness ==
    \E p \in Procs :
        /\ decision[p] = "denied"
        /\ rs.status = 200
        /\ rs.user_id = user[p]
        /\ last_ad_at[user[p]] = last[p]

\* the steps by which the pending call of task p comes back: query.answer,
\* requests.get (timeout=10) and the Telegram sends return or raise, and the
\* event loop then lets the handler run to its end
Returns(p) ==
    \/ answer_ok(p, FALSE)
    \/ answer_raises(p, FALSE)
    \/ fetch(p, SampleResponses)
    \/ reply_ok(p, FALSE)
    \/ reply_raises(p, FALSE)
    \/ send_ok(p, FALSE)
    \/ send_raises(p, FALSE)
    \/ finish(p, FALSE)

\* one handler at a time, every pending call eventually coming back
NextLive ==
    \/ Tick
    \/ \E u \in Users : ads_cmd("t1", u, FALSE)
    \/ \E u \in Users : button_callback("t1", u, FALSE)
    \/ Returns("t1")

SpecLive == Init /\ [][NextLive]_vars /\ WF_vars(Returns("t1"))

\* what the user was given by a finished invocation: the kind of its last
\* Telegram call when that call went through, nothing when it raised
Outcome(p) ==
    IF result[p] # "returned" \/ calls[p] = << >> THEN "none"
    ELSE LET c == Last(calls[p]) IN
         IF c = reply_text(WAIT_MSG) THEN "wait notice"
         ELSE IF c = reply_text(NOAD_MSG) THEN "no-ad notice"
         ELSE IF c = reply_text(FAIL_MSG) THEN "failure notice"
         ELSE IF c.method \in {"send_photo", "send_message"} THEN "ad dispatched"
         ELSE "none"

Outcomes == {"wait notice", "no-ad notice", "ad dispatched", "failure notice"}

\* a task that holds nothing of an earlier invocation
Fresh(p) ==
    /\ entry[p] = "none"
    /\ user[p] = 0
    /\ now[p] = 0
    /\ last[p] = 0
    /\ decision[p] = "none"
    /\ resp[p] = ExcResponse
    /\ ad[p] = None
    /\ fetches[p] = 0
    /\ calls[p] = << >>
    /\ result[p] = "none"

\* every invocation comes back to Idle
C18_ReturnsToIdle == \A p \in {"t1"} : (pc[p] # "idle") ~> (pc[p] = "idle")

\* an idle task keeps nothing of the invocation before
C18_IdleIsFresh == \A p \in Procs : pc[p] = "idle" => Fresh(p)

\* C18: every started invocation of the ad workflow returns to Idle, ends
\* with exactly one of the outcomes wait notice, no-ad notice, ad dispatched
\* or failure notice, and keeps no state for the next invocation other than
\* the cooldown entry.
C18_TerminatesWithOneOutcome ==
    /\ C18_ReturnsToIdle
    /\ [](\A p \in Procs :
            (Started(p) /\ pc[p] = "done") => Outcome(p) \in Outcomes)
    /\ []C18_IdleIsFresh

\* the aliases of each logical field, in the order the handler probes them
ClickOrder == <<"click_url", "url", "link">>
RewardUrlOrder == <<"reward_url", "rewardUrl">>
TextOrder == <<"text_html", "text">>
ImageOrder == <<"image_url", "imageUrl">>

\* the value under the first alias that passes the test, ABSENT when none does
FirstWith(d, order, Test(_)) ==
    LET I == {i \in 1..Len(order) : Test(d[order[i]])} IN
    IF I = {} THEN ABSENT
    ELSE d[order[CHOOSE i \in I : \A j \in I : i <= j]]

IsPresent(v) == v # ABSENT
FirstPresent(d, order) == FirstWith(d, order, IsPresent)
FirstNonEmpty(d, order) == FirstWith(d, order, Truthy)

\* the ad message of task p shows, for each logical field, the value that
\* Pick selects among the aliases of the response
UsesPicked(p, Pick(_, _)) ==
    LET d == Body(p)
        c == AdCall(p)
    IN  /\ Truthy(Pick(d, ClickOrder)) <=>
               (Rows(p) # << >> /\ Len(Rows(p)) # RowCount(HasReward(d)))
        /\ HasClick(d) => Rows(p)[1][1].url = Pick(d, ClickOrder)
        /\ HasReward(d) => Last(Rows(p))[1].url = Pick(d, RewardUrlOrder)
        /\ c.text = IF Truthy(Pick(d, TextOrder)) THEN Pick(d, TextOrder)
                    ELSE SPONSORED
        /\ IF Truthy(Pick(d, ImageOrder))
           THEN c.method = "send_photo" /\ c.photo = Pick(d, ImageOrder)
           ELSE c.method = "send_message"

\* the statement as written: the first alias present in the response wins,
\* a later alias being used only when every earlier one is absent
C19_FirstPresentWins ==
    \A p \in Procs : Dispatched(p) => UsesPicked(p, FirstPresent)

\* C19: for each logical ad field the aliases are probed in a fixed order
\* (click_url, url, link; reward_url, rewardUrl; text_html, text; image_url,
\* imageUrl) and the first alias with a non-empty value wins; a later alias is
\* used only when every earlier alias is absent or empty.
C19_FirstNonEmptyWins ==
    \A p \in Procs : Dispatched(p) => UsesPicked(p, FirstNonEmpty)

\* an ad whose click_url is present but empty and whose url is shown, and an
\* ad with two different non-empty click aliases
C19_Witness ==
    \E p \in Procs :
        /\ Dispatched(p)
        /\ Body(p)["click_url"] = ""
        /\ Body(p)["url"] = "x"
        /\ Body(p)["link"] = "y"
        /\ Rows(p)[1][1].url = "x"

\* the notices task p has issued
NoticeTexts(p) == {calls[p][i].text : i \in Notices(p)}

\* the admitted invocation p came to nothing: no ad, a failed fetch, or a
\* failed delivery
CameToNothing(p) ==
    /\ decision[p] = "admitted"
    /\ fetches[p] = 1
    /\ \/ NotAd(ad[p])
       \/ FAIL_MSG \in NoticeTexts(p)

\* C20: an admitted request consumes the cooldown of its user before the ad
\* fetch runs, and the cooldown is never given back: the user's entry stays
\* at or after the time of the admission whatever comes of the invocation,
\* and a new request of the same user less than COOLDOWN_SECONDS after the
\* admission is denied also when the fetch gave no ad, failed, or the
\* delivery failed.
C20_CooldownNotRefunded ==
    /\ [](\A p \in Procs :
            decision[p] = "admitted" =>
                /\ last_ad_at[user[p]] >= now[p]
                /\ pc[p] = "fetch" =>
                       fetches[p] = 0 /\ last_ad_at[user[p]] = now[p])
    /\ [][\A p, q \in Procs :
            (/\ p # q
             /\ decision[p] = "admitted"
             /\ Gates(q)
             /\ user'[q] = user[p]
             /\ clock - now[p] < COOLDOWN_SECONDS) =>
                decision'[q] = "denied"]_vars

\* a request denied some seconds after an admitted request of the same user
\* whose delivery failed, and inside its cooldown
C20_Witness ==
    \E p, q \in Procs :
        /\ p # q
        /\ CameToNothing(p)
        /\ FAIL_MSG \in NoticeTexts(p)
        /\ decision[q] = "denied"
        /\ user[q] = user[p]
        /\ last[q] = now[p]
        /\ now[q] > now[p]
        /\ now[q] - now[p] < COOLDOWN_SECONDS

====
